---- MODULE Spec2Model ----
(***************************************************************************)
(* Cost-basis allocation engine of ibkr-hmrc:                              *)
(*   - Section104Pool (scripts/section_104_pooling.py): same-day, 30-day   *)
(*     and Section 104 pool matching of disposals;                         *)
(*   - the FIFO lot ledger and the trade loop of TrialBalanceGenerator     *)
(*     (scripts/ibkr_trial_balance.py).                                    *)
(* Money is held in pence (1 = GBP 0.01), unit costs in 1/100 of a penny   *)
(* (GBP 0.0001), quantities in whole units, dates in days.  Decimal        *)
(* division and multiplication are carried out digit by digit at the       *)
(* precision of Python's default decimal context, so that the rounding of  *)
(* an intermediate quotient is part of the model.                          *)
(***************************************************************************)
EXTENDS Integers, Sequences, FiniteSets, TLC

(***************************************************************************)
(* Bounds of the model and program constants.                              *)
(***************************************************************************)
MaxEvents == 4
MaxMultiEvents == 3
MaxWideEvents == 2
MaxTrades == 3
MaxQty == 4
MaxSplitEvents == 5
MaxTaxCalls == 3
MaxRawEvents == 3
MaxMainTrades == 2
MaxMainEvents == 3
MaxAnyDateEvents == 4

Symbols == {"X", "Y"}
Dates == {0, 30, 31}
Costs == {2, 9}
ProceedsSet == {10}
Qtys == 1..MaxQty
WideQtys == {1, 300, 1000}
SplitAcqQtys == {4}
SplitDispQtys == {1, 2}
SplitCosts == {2}
WideCosts == {100, 123456}
RawQtys == {-1, 1, 2}
MainQtys == {1, 2}
AnyDates == {0, 1, 30, 31}
AnyDateQtys == {1, 2}
MainProceeds == {-3, 1, 10}
CashAmounts == {-5, 5}
LoanAmounts == {7}
GainLists == {<<>>, <<300000>>, <<-50000, 20000>>}
Dividends == {0, 78013}
InterestReceived == {0, 160452, 160455}
BrokerFees == {0, 112026}
InterestPaid == {0, 100, 874342}
ManagementExpenses == {0, 50000}
ProfitArgs == {-100, 4999999, 5000000, 5000001, 24999999, 25000000, 25000001}

THIRTY_DAYS == 30
DecimalPrec == 28
FlushAllDate == 3652059

(***************************************************************************)
(* decimal.Decimal arithmetic on magnitudes.  A value is a coefficient     *)
(* (sequence of digits, most significant first, no leading zero) and the   *)
(* exponent of its last digit: <<5,5>> with exponent -1 is 5.5.            *)
(***************************************************************************)
Abs(x) == IF x < 0 THEN -x ELSE x

Sign(x) == IF x < 0 THEN -1 ELSE 1

RECURSIVE Pow10(_)
Pow10(n) == IF n <= 0 THEN 1 ELSE 10 * Pow10(n - 1)

RECURSIVE IntDigits(_)
IntDigits(n) == IF n = 0 THEN <<>> ELSE Append(IntDigits(n \div 10), n % 10)

RECURSIVE DigitsInt(_)
DigitsInt(ds) ==
    IF ds = <<>> THEN 0
    ELSE 10 * DigitsInt(SubSeq(ds, 1, Len(ds) - 1)) + ds[Len(ds)]

RECURSIVE IncDigits(_)
IncDigits(ds) ==
    IF ds = <<>> THEN <<1>>
    ELSE IF ds[Len(ds)] < 9 THEN [ds EXCEPT ![Len(ds)] = @ + 1]
    ELSE Append(IncDigits(SubSeq(ds, 1, Len(ds) - 1)), 0)

AllZero(ds) == \A i \in 1..Len(ds) : ds[i] = 0

\* The coefficient ds rounded up by one unit in the last place, kept at DecimalPrec digits.
RoundedUp(ds, e) ==
    LET inc == IncDigits(ds)
    IN IF Len(inc) > DecimalPrec
       THEN [dig |-> SubSeq(inc, 1, DecimalPrec), exp |-> e + 1]
       ELSE [dig |-> inc, exp |-> e]

\* Long division r/d continued after the digits ds; the context rounds
\* half-even once DecimalPrec significant digits are out.
RECURSIVE LongDiv(_, _, _, _)
LongDiv(r, d, ds, e) ==
    IF r = 0 THEN [dig |-> ds, exp |-> e]
    ELSE IF Len(ds) = DecimalPrec
    THEN IF (2 * r > d) \/ (2 * r = d /\ ds[DecimalPrec] % 2 = 1)
         THEN RoundedUp(ds, e)
         ELSE [dig |-> ds, exp |-> e]
    ELSE LET x == (10 * r) \div d
         IN LongDiv((10 * r) % d, d,
                    IF ds = <<>> /\ x = 0 THEN <<>> ELSE Append(ds, x), e - 1)

\* Decimal(n) / Decimal(d) for n >= 0, d > 0.
DecDivide(n, d) == LongDiv(n % d, d, IntDigits(n \div d), 0)

RECURSIVE MulDigits(_, _, _)
MulDigits(ds, k, carry) ==
    IF ds = <<>> THEN IntDigits(carry)
    ELSE LET t == ds[Len(ds)] * k + carry
         IN Append(MulDigits(SubSeq(ds, 1, Len(ds) - 1), k, t \div 10), t % 10)

\* The context's rounding of a result whose coefficient is longer than DecimalPrec.
DecRound(ds, e) ==
    IF Len(ds) <= DecimalPrec THEN [dig |-> ds, exp |-> e]
    ELSE LET kept == SubSeq(ds, 1, DecimalPrec)
             first == ds[DecimalPrec + 1]
             rest == SubSeq(ds, DecimalPrec + 2, Len(ds))
             up == \/ first > 5
                   \/ first = 5 /\ ~AllZero(rest)
                   \/ first = 5 /\ AllZero(rest) /\ kept[DecimalPrec] % 2 = 1
             e2 == e + Len(ds) - DecimalPrec
         IN IF up THEN RoundedUp(kept, e2) ELSE [dig |-> kept, exp |-> e2]

\* x * Decimal(k) for k >= 0.
DecMulInt(x, k) ==
    IF k = 0 \/ x.dig = <<>> THEN [dig |-> <<>>, exp |-> 0]
    ELSE DecRound(MulDigits(x.dig, k, 0), x.exp)

\* x.quantize(Decimal('1'), rounding): "HALF_UP" or "HALF_EVEN".
Quantize(x, rounding) ==
    IF x.dig = <<>> THEN 0
    ELSE IF x.exp >= 0 THEN DigitsInt(x.dig) * Pow10(x.exp)
    ELSE LET n == Len(x.dig) + x.exp
         IN IF n < 0 THEN 0
            ELSE LET int == IF n = 0 THEN 0 ELSE DigitsInt(SubSeq(x.dig, 1, n))
                     first == x.dig[n + 1]
                     rest == SubSeq(x.dig, n + 2, Len(x.dig))
                     up == IF rounding = "HALF_UP" THEN first >= 5
                           ELSE \/ first > 5
                                \/ first = 5 /\ ~AllZero(rest)
                                \/ first = 5 /\ AllZero(rest) /\ int % 2 = 1
                 IN IF up THEN int + 1 ELSE int

(***************************************************************************)
(* State.                                                                  *)
(*   pools      Section104Pool._pools: symbol -> qty, cost (pence)         *)
(*   pending    Section104Pool._pending_disposals (DisposalRecord list)    *)
(*   disposals  Section104Pool._disposals (MatchedDisposal list)           *)
(*   warnings   number of warning lines written to stderr                  *)
(*   holdings   TrialBalanceGenerator.holdings: symbol -> FIFO lots        *)
(*   pc         position of TrialBalanceGenerator.process and of main      *)
(*   lastKey    sort key of the trade process() handled last               *)
(*   accounts   TrialBalanceGenerator.accounts: code -> debit, credit      *)
(*   tax        the TaxComputation object: its fields, the total of the    *)
(*              management expenses file it was constructed with, and      *)
(*              what its last call was given and returned                  *)
(*   raised     the exception the last call raised to its caller, or       *)
(*              "none" when it returned                                    *)
(* Observers of the run, not read by any operation:                        *)
(*   audit      one entry per MatchedDisposal: the pool before and after   *)
(*              the record was made, whether the flush warned, and the     *)
(*              acquisition a same-day/30-day match was costed from        *)
(*   acquired   per symbol, quantity and cost passed to add_acquisition    *)
(*   sold       per symbol, quantity and proceeds passed to remove_disposal*)
(*   fifo       per symbol, what _process_trade saw: quantity bought and   *)
(*              sold (in all and per date), cost of the lots bought, cost  *)
(*              returned by _calculate_fifo_cost, and whether a sale asked *)
(*              for more than the lots held                                *)
(*   last       the operation that ran last, and the date of the last      *)
(*              add_acquisition or remove_disposal call                    *)
(*   events     number of operations run                                   *)
(***************************************************************************)
VARIABLES pools, pending, disposals, warnings, holdings, pc, lastKey,
          audit, acquired, sold, fifo, last, events, accounts, tax, raised

vars == <<pools, pending, disposals, warnings, holdings, pc, lastKey,
          audit, acquired, sold, fifo, last, events, accounts, tax, raised>>

poolVars == <<pools, pending, disposals, warnings, audit, acquired, sold>>

\* The TaxComputation object and the outcome of the last call.
tcVars == <<tax, raised>>


fifoVars == <<holdings, fifo>>

NoAcq == [date |-> -1, qty |-> 0, cost |-> 0, cost_per_unit |-> 0]

(***************************************************************************)
(* Section104Pool.add_acquisition                                          *)
(***************************************************************************)
\* cost_per_unit = (cost_gbp / qty).quantize(Decimal('0.0001'), ROUND_HALF_UP), in GBP 0.0001
CostPerUnit(cost_gbp, qty) ==
    Sign(cost_gbp) * Quantize(DecDivide(Abs(cost_gbp) * 100, qty), "HALF_UP")

\* (cost_per_unit * match_qty).quantize(Decimal('0.01'), ROUND_HALF_UP), in pence
MatchCost(cost_per_unit, match_qty) ==
    Sign(cost_per_unit) *
        Quantize(DecDivide(Abs(cost_per_unit) * match_qty, 100), "HALF_UP")

\* (total_proceeds_gbp * qty / original_qty).quantize(Decimal('0.01'), ROUND_HALF_UP)
ProRataProceeds(total_proceeds_gbp, qty, original_qty) ==
    Sign(total_proceeds_gbp) *
        Quantize(DecDivide(Abs(total_proceeds_gbp) * qty, original_qty), "HALF_UP")

Min(a, b) == IF a <= b THEN a ELSE b

\* SameDayIdx without the test of the symbol.
SameDayIdxAnySymbol(pend, symbol, acq_date) ==
    SelectSeq([i \in 1..Len(pend) |-> i], LAMBDA i : pend[i].date = acq_date)

\* Indices of the pending disposals of symbol dated acq_date, in list order.
SameDayIdx(pend, symbol, acq_date) ==
    SelectSeq([i \in 1..Len(pend) |-> i],
              LAMBDA i : pend[i].symbol = symbol /\ pend[i].date = acq_date)

\* ThirtyDayIdx with the window one day short: (acq_date - d.date) < THIRTY_DAYS.
ThirtyDayIdxExclusive(pend, symbol, acq_date) ==
    SelectSeq([i \in 1..Len(pend) |-> i],
              LAMBDA i : /\ pend[i].symbol = symbol
                         /\ pend[i].date < acq_date
                         /\ acq_date - pend[i].date < THIRTY_DAYS)

\* Indices of the pending disposals of symbol dated before acq_date and at most
\* THIRTY_DAYS before it, in list order.
ThirtyDayIdx(pend, symbol, acq_date) ==
    SelectSeq([i \in 1..Len(pend) |-> i],
              LAMBDA i : /\ pend[i].symbol = symbol
                         /\ pend[i].date < acq_date
                         /\ acq_date - pend[i].date <= THIRTY_DAYS)

\* list.sort(key=date): stable insertion of index i into idxs sorted by date.
RECURSIVE InsertByDate(_, _, _)
InsertByDate(pend, idxs, i) ==
    IF idxs = <<>> THEN <<i>>
    ELSE IF pend[Head(idxs)].date <= pend[i].date
    THEN <<Head(idxs)>> \o InsertByDate(pend, Tail(idxs), i)
    ELSE <<i>> \o idxs

RECURSIVE SortByDate(_, _)
SortByDate(pend, idxs) ==
    IF idxs = <<>> THEN <<>>
    ELSE InsertByDate(pend, SortByDate(pend, SubSeq(idxs, 1, Len(idxs) - 1)),
                      idxs[Len(idxs)])

\* to_match with thirty_day left in list order.
ToMatchUnsorted(pend, symbol, acq_date) ==
    SameDayIdx(pend, symbol, acq_date) \o ThirtyDayIdx(pend, symbol, acq_date)

\* to_match = same_day + thirty_day, thirty_day sorted by disposal date.
ToMatch(pend, symbol, acq_date) ==
    SameDayIdx(pend, symbol, acq_date)
        \o SortByDate(pend, ThirtyDayIdx(pend, symbol, acq_date))

MatchingRule(disp_date, acq_date) ==
    IF disp_date = acq_date THEN "same_day" ELSE "thirty_day"

\* One iteration of the loop over to_match, on the running state st.
MatchStep(st, i, symbol, acq) ==
    LET disp == st.pending[i]
    IN IF st.remaining_qty <= 0 \/ disp.qty_remaining <= 0 THEN st
       ELSE LET match_qty == Min(st.remaining_qty, disp.qty_remaining)
                match_cost == MatchCost(acq.cost_per_unit, match_qty)
                match_proceeds == ProRataProceeds(disp.total_proceeds_gbp,
                                                  match_qty, disp.original_qty)
                rec == [date |-> disp.date, symbol |-> symbol,
                        quantity |-> match_qty,
                        proceeds_gbp |-> match_proceeds,
                        cost_gbp |-> match_cost,
                        gain_loss_gbp |-> match_proceeds - match_cost,
                        matching_rule |-> MatchingRule(disp.date, acq.date)]
            IN [pending |-> [st.pending EXCEPT ![i].qty_remaining = @ - match_qty],
                disposals |-> Append(st.disposals, rec),
                audit |-> Append(st.audit,
                                 [pool_qty |-> pools[symbol].qty,
                                  pool_cost |-> pools[symbol].cost,
                                  after_qty |-> pools[symbol].qty,
                                  after_cost |-> pools[symbol].cost,
                                  warned |-> FALSE, acq |-> acq]),
                remaining_qty |-> st.remaining_qty - match_qty,
                remaining_cost |-> st.remaining_cost - match_cost]

RECURSIVE MatchLoop(_, _, _, _)
MatchLoop(st, idxs, symbol, acq) ==
    IF idxs = <<>> THEN st
    ELSE MatchLoop(MatchStep(st, Head(idxs), symbol, acq), Tail(idxs), symbol, acq)

\* remaining_qty > 0: the remainder of the acquisition goes to the pool.
CreditPool(pool, remaining_qty, remaining_cost) ==
    IF remaining_qty > 0
    THEN [qty |-> pool.qty + remaining_qty, cost |-> pool.cost + remaining_cost]
    ELSE pool

\* The pending list left as the matching loop leaves it.
KeepExhausted(pend) == pend

\* Fully matched disposals are removed from the pending list.
RemoveExhausted(pend) == SelectSeq(pend, LAMBDA d : d.qty_remaining > 0)

add_acquisition(acq_date, symbol, qty, cost_gbp) ==
    IF qty <= 0 THEN UNCHANGED poolVars
    ELSE LET acq == [date |-> acq_date, qty |-> qty, cost |-> cost_gbp,
                     cost_per_unit |-> CostPerUnit(cost_gbp, qty)]
             st == MatchLoop([pending |-> pending, disposals |-> disposals,
                              audit |-> audit,
                              remaining_qty |-> qty, remaining_cost |-> cost_gbp],
                             ToMatch(pending, symbol, acq_date), symbol, acq)
         IN /\ pending' = RemoveExhausted(st.pending)
            /\ disposals' = st.disposals
            /\ audit' = st.audit
            /\ pools' = [pools EXCEPT ![symbol] =
                            CreditPool(@, st.remaining_qty, st.remaining_cost)]
            /\ acquired' = [acquired EXCEPT ![symbol] =
                               [qty |-> @.qty + qty, amount |-> @.amount + cost_gbp]]
            /\ UNCHANGED <<warnings, sold>>

(***************************************************************************)
(* Section104Pool._flush_pending_disposals_for_symbol                      *)
(***************************************************************************)
\* FlushDue taking the last day of the window as closed:
\* (disp.date + THIRTY_DAYS) > before_date keeps the disposal pending.
FlushDueOnLastDay(disp, symbol, before_date) ==
    /\ disp.symbol = symbol
    /\ disp.qty_remaining > 0
    /\ ~(disp.date + THIRTY_DAYS > before_date)

\* A pending disposal the loop flushes: of this symbol, with quantity left,
\* and with its 30-day window closed before before_date.
FlushDue(disp, symbol, before_date) ==
    /\ disp.symbol = symbol
    /\ disp.qty_remaining > 0
    /\ ~(disp.date + THIRTY_DAYS >= before_date)

\* avg_cost = pool['cost'] / pool['qty'];
\* cost_gbp = (avg_cost * qty_to_take).quantize(Decimal('0.01'), ROUND_HALF_UP)
FlushCostGbp(pool, qty_to_take) ==
    Sign(pool.cost) *
        Quantize(DecMulInt(DecDivide(Abs(pool.cost), pool.qty), qty_to_take),
                 "HALF_UP")

\* The branch pool['qty'] <= 0: zero cost and a warning.
PoolEmpty(pool) == pool.qty <= 0

\* DebitPool without pool['qty'] -= qty_to_take.
DebitPoolCostOnly(pool, qty_to_take, cost_gbp) ==
    LET c == pool.cost - cost_gbp
    IN [qty |-> pool.qty, cost |-> IF c < 0 THEN 0 ELSE c]

\* pool['cost'] -= cost_gbp; pool['qty'] -= qty_to_take; both clamped at zero.
DebitPool(pool, qty_to_take, cost_gbp) ==
    LET q == pool.qty - qty_to_take
        c == pool.cost - cost_gbp
    IN [qty |-> IF q < 0 THEN 0 ELSE q, cost |-> IF c < 0 THEN 0 ELSE c]

\* One iteration of the loop over the pending disposals, on the running state st.
FlushStep(st, disp, symbol, before_date) ==
    IF ~FlushDue(disp, symbol, before_date)
    THEN [st EXCEPT !.new_pending = Append(@, disp)]
    ELSE LET pool == st.pools[symbol]
             qty_to_take == disp.qty_remaining
             empty == PoolEmpty(pool)
             cost_gbp == IF empty THEN 0 ELSE FlushCostGbp(pool, qty_to_take)
             after == IF empty THEN pool ELSE DebitPool(pool, qty_to_take, cost_gbp)
             proceeds == ProRataProceeds(disp.total_proceeds_gbp, qty_to_take,
                                         disp.original_qty)
             rec == [date |-> disp.date, symbol |-> symbol,
                     quantity |-> qty_to_take,
                     proceeds_gbp |-> proceeds,
                     cost_gbp |-> cost_gbp,
                     gain_loss_gbp |-> proceeds - cost_gbp,
                     matching_rule |-> "section_104"]
         IN [st EXCEPT !.pools[symbol] = after,
                       !.disposals = Append(@, rec),
                       !.warnings = IF empty THEN @ + 1 ELSE @,
                       !.audit = Append(@, [pool_qty |-> pool.qty,
                                            pool_cost |-> pool.cost,
                                            after_qty |-> after.qty,
                                            after_cost |-> after.cost,
                                            warned |-> empty, acq |-> NoAcq])]

RECURSIVE FlushLoop(_, _, _, _)
FlushLoop(st, rest, symbol, before_date) ==
    IF rest = <<>> THEN st
    ELSE FlushLoop(FlushStep(st, Head(rest), symbol, before_date),
                   Tail(rest), symbol, before_date)

\* The matcher's state after the call, as a record of pools, pending,
\* disposals, warnings and audit.
FlushPendingDisposalsForSymbol(st, symbol, before_date) ==
    LET out == FlushLoop([pools |-> st.pools, new_pending |-> <<>>,
                          disposals |-> st.disposals, warnings |-> st.warnings,
                          audit |-> st.audit],
                         st.pending, symbol, before_date)
    IN [pools |-> out.pools, pending |-> out.new_pending,
        disposals |-> out.disposals, warnings |-> out.warnings,
        audit |-> out.audit]

Matcher == [pools |-> pools, pending |-> pending, disposals |-> disposals,
            warnings |-> warnings, audit |-> audit]

SetMatcher(st) ==
    /\ pools' = st.pools
    /\ pending' = st.pending
    /\ disposals' = st.disposals
    /\ warnings' = st.warnings
    /\ audit' = st.audit

(***************************************************************************)
(* Section104Pool.remove_disposal                                          *)
(***************************************************************************)
remove_disposal(disp_date, symbol, qty, proceeds_gbp) ==
    IF qty <= 0 THEN UNCHANGED poolVars
    ELSE LET st == FlushPendingDisposalsForSymbol(Matcher, symbol, disp_date)
         IN /\ SetMatcher([st EXCEPT !.pending =
                   Append(@, [date |-> disp_date, symbol |-> symbol,
                              qty_remaining |-> qty, original_qty |-> qty,
                              total_proceeds_gbp |-> proceeds_gbp])])
            /\ sold' = [sold EXCEPT ![symbol] =
                           [qty |-> @.qty + qty, amount |-> @.amount + proceeds_gbp]]
            /\ UNCHANGED acquired

(***************************************************************************)
(* Section104Pool.flush_all_pending                                        *)
(***************************************************************************)
\* PendingSymbols taking the symbol of the oldest pending disposal only.
PendingSymbolsFirst(pend) == IF pend = <<>> THEN {} ELSE {pend[1].symbol}

\* symbols = set(d.symbol for d in self._pending_disposals)
PendingSymbols(pend) == {pend[i].symbol : i \in 1..Len(pend)}

\* The orders in which a for loop may visit the set S.
RECURSIVE Orders(_)
Orders(S) ==
    IF S = {} THEN {<<>>}
    ELSE UNION {{<<x>> \o o : o \in Orders(S \ {x})} : x \in S}

RECURSIVE FlushEach(_, _)
FlushEach(st, order) ==
    IF order = <<>> THEN st
    ELSE FlushEach(FlushPendingDisposalsForSymbol(st, Head(order), FlushAllDate),
                   Tail(order))

\* A flush_all_pending that leaves the pending disposals where they are.
FlushNothing == UNCHANGED poolVars

\* for symbol in symbols: the iteration order of a set of strings is not fixed.
flush_all_pending ==
    \E order \in Orders(PendingSymbols(pending)) :
        /\ SetMatcher(FlushEach(Matcher, order))
        /\ UNCHANGED <<acquired, sold>>

(***************************************************************************)
(* TrialBalanceGenerator: the FIFO ledger and the trade loop               *)
(***************************************************************************)
\* (lot.cost_gbp * (remaining / lot.quantity)).quantize(Decimal('0.01')):
\* no rounding argument, so the context's ROUND_HALF_EVEN.
CostConsumed(lot_cost, remaining, lot_quantity) ==
    Sign(lot_cost) *
        Quantize(DecMulInt(DecDivide(remaining, lot_quantity), Abs(lot_cost)),
                 "HALF_EVEN")

\* The loop body with the part of a lot left behind keeping the whole cost of
\* the lot.
FifoStepKeepCost(st, lot) ==
    IF st.remaining <= 0 THEN [st EXCEPT !.new_lots = Append(@, lot)]
    ELSE IF lot.quantity <= st.remaining
    THEN [st EXCEPT !.total_cost = @ + lot.cost_gbp,
                    !.remaining = @ - lot.quantity]
    ELSE [total_cost |-> st.total_cost
                            + CostConsumed(lot.cost_gbp, st.remaining, lot.quantity),
          new_lots |-> Append(st.new_lots,
                              [lot EXCEPT !.quantity = @ - st.remaining]),
          remaining |-> 0]

\* One iteration of the loop over the lots, on the running state st.
FifoStep(st, lot) ==
    IF st.remaining <= 0 THEN [st EXCEPT !.new_lots = Append(@, lot)]
    ELSE IF lot.quantity <= st.remaining
    THEN [st EXCEPT !.total_cost = @ + lot.cost_gbp,
                    !.remaining = @ - lot.quantity]
    ELSE LET cost_consumed == CostConsumed(lot.cost_gbp, st.remaining, lot.quantity)
         IN [total_cost |-> st.total_cost + cost_consumed,
             new_lots |-> Append(st.new_lots,
                                 [date |-> lot.date,
                                  quantity |-> lot.quantity - st.remaining,
                                  cost_gbp |-> lot.cost_gbp - cost_consumed]),
             remaining |-> 0]

RECURSIVE FifoLoop(_, _)
FifoLoop(st, lots) ==
    IF lots = <<>> THEN st ELSE FifoLoop(FifoStep(st, Head(lots)), Tail(lots))

\* _calculate_fifo_cost refusing a disposal of more than is held: the lots
\* are left as they are and no cost is returned.
CalculateFifoCostAllOrNothing(lots, quantity) ==
    LET r == FifoLoop([total_cost |-> 0, new_lots |-> <<>>,
                       remaining |-> quantity], lots)
    IN IF r.remaining > 0
       THEN [total_cost |-> 0, new_lots |-> lots, remaining |-> r.remaining]
       ELSE r

\* _calculate_fifo_cost: the lots left and the cost returned.
CalculateFifoCost(lots, quantity) ==
    FifoLoop([total_cost |-> 0, new_lots |-> <<>>, remaining |-> quantity], lots)

SECTION_104_ASSET_CLASSES == {"STK", "OPT"}

\* The accounts of TrialBalanceGenerator.ACCOUNTS that the postings below use.
AccountCodes ==
    {"1101", "1103", "1200", "2101", "3000", "4000", "4100", "4200", "4300",
     "5000", "5200", "5400", "5500", "5600"}

\* _debit with the negative amount dropped instead of posted to the credit side.
DebitDropNegative(acc, code, amount) ==
    IF amount < 0 THEN acc ELSE [acc EXCEPT ![code].debit = @ + amount]

\* _debit: a negative amount is posted to the credit side as abs(amount).
Debit(acc, code, amount) ==
    IF amount < 0
    THEN [acc EXCEPT ![code].credit = @ + Abs(amount)]
    ELSE [acc EXCEPT ![code].debit = @ + amount]

\* _credit: a negative amount is posted to the debit side as abs(amount).
Credit(acc, code, amount) ==
    IF amount < 0
    THEN [acc EXCEPT ![code].debit = @ + Abs(amount)]
    ELSE [acc EXCEPT ![code].credit = @ + amount]

\* gain_account, loss_account: FX accounts for CASH, investment accounts otherwise.
GainAccount(asset_class) == IF asset_class = "CASH" THEN "4300" ELSE "4200"

LossAccount(asset_class) == IF asset_class = "CASH" THEN "5500" ELSE "5400"

\* The journal entries of a buy of cost_gbp.
PostBuy(acc, cost_gbp) ==
    Credit(Debit(acc, "1200", cost_gbp), "1101", cost_gbp)

\* The journal entries of a sell of net_proceeds_gbp whose lots cost cost_of_sold.
PostSell(acc, asset_class, net_proceeds_gbp, cost_of_sold) ==
    LET a1 == Debit(acc, "1101", net_proceeds_gbp)
        a2 == Credit(a1, "1200", cost_of_sold)
        gain_loss == net_proceeds_gbp - cost_of_sold
    IN IF gain_loss > 0 THEN Credit(a2, GainAccount(asset_class), gain_loss)
       ELSE IF gain_loss < 0
       THEN Debit(a2, LossAccount(asset_class), Abs(gain_loss))
       ELSE a2

\* _process_trade: a buy appends a lot, a sell consumes lots first in first
\* out; both post their journal entries.  t.amount_gbp is cost_gbp of a buy
\* and net_proceeds_gbp of a sell, as to_gbp returned it.
ProcessTradeFifo(t) ==
    IF t.is_buy
    THEN /\ holdings' = [holdings EXCEPT ![t.symbol] =
                Append(@, [date |-> t.date, quantity |-> t.quantity,
                           cost_gbp |-> t.amount_gbp])]
         /\ accounts' = PostBuy(accounts, t.amount_gbp)
         /\ fifo' = [fifo EXCEPT ![t.symbol].bought = @ + t.quantity,
                                 ![t.symbol].cost_in = @ + t.amount_gbp,
                                 ![t.symbol].bought_on[t.date] = @ + t.quantity]
    ELSE LET r == CalculateFifoCost(holdings[t.symbol], t.quantity)
         IN /\ holdings' = [holdings EXCEPT ![t.symbol] = r.new_lots]
            /\ accounts' = PostSell(accounts, t.asset_class, t.amount_gbp,
                                    r.total_cost)
            /\ fifo' = [fifo EXCEPT ![t.symbol].sold = @ + t.quantity,
                                    ![t.symbol].cost_out = @ + r.total_cost,
                                    ![t.symbol].short = @ \/ r.remaining > 0,
                                    ![t.symbol].sold_on[t.date] = @ + t.quantity]

\* _process_trade_section_104
ProcessTradeSection104(t) ==
    IF t.is_buy
    THEN add_acquisition(t.date, t.symbol, t.quantity, t.amount_gbp)
    ELSE remove_disposal(t.date, t.symbol, t.quantity, t.amount_gbp)

\* key=lambda t: (t.date, 0 if t.is_buy else 1), as one number
SortKey(date, is_buy) == 2 * date + (IF is_buy THEN 0 ELSE 1)

AssetClassOf(symbol) == IF symbol = "X" THEN "STK" ELSE "CRYPTO"

Trades ==
    {[date |-> d, symbol |-> s, is_buy |-> TRUE, quantity |-> q,
      amount_gbp |-> c, asset_class |-> AssetClassOf(s)] :
        d \in Dates, s \in Symbols, q \in Qtys, c \in Costs}
    \cup
    {[date |-> d, symbol |-> s, is_buy |-> FALSE, quantity |-> q,
      amount_gbp |-> c, asset_class |-> AssetClassOf(s)] :
        d \in Dates, s \in Symbols, q \in Qtys, c \in ProceedsSet}

(***************************************************************************)
(* TaxComputation (scripts/tax_computation.py).  An Optional[Decimal]      *)
(* field is a record: some = FALSE is None.  The products and quotients of *)
(* these methods are exact at 28 digits for the amounts of the model, so   *)
(* they are computed exactly and rounded once, by quantize.                *)
(***************************************************************************)
NoPostings == [c \in AccountCodes |-> [debit |-> 0, credit |-> 0]]

NoneValue == [some |-> FALSE, v |-> 0]

Some(x) == [some |-> TRUE, v |-> x]

\* No InterestReliefResult (None).
NoRelief ==
    [some |-> FALSE, total_interest_paid |-> 0, allowable_interest |-> 0,
     disallowed_interest |-> 0, icr_limit |-> 0, taxable_earnings |-> 0,
     icr_applicable |-> FALSE, warning |-> FALSE]

\* No CT600Mapping (None).
NoCT600 ==
    [some |-> FALSE, box_13_non_trading_profits |-> 0,
     box_16_chargeable_gains |-> 0, box_46_taxable_total_profit |-> 0,
     box_500_corporation_tax |-> 0]

\* TaxComputation.__init__; management_expenses is the total of the file at
\* management_expenses_path.  returned and profit_used record what the last
\* calculate_interest_relief returned and the profit the last
\* calculate_corporation_tax taxed.
NewTaxComputation(management_expenses) ==
    [management_expenses |-> management_expenses,
     adjustments |-> <<>>,
     interest_relief |-> NoRelief,
     taxable_profit |-> NoneValue,
     corporation_tax |-> NoneValue,
     ct600 |-> NoCT600,
     returned |-> NoRelief,
     profit_used |-> NoneValue]

\* (n / d).quantize(Decimal('0.01'), rounding=ROUND_HALF_UP) of an exact
\* quotient, d > 0: half away from zero.
QuantizeRatio(n, d) ==
    LET q == Abs(n) \div d
        r == Abs(n) % d
    IN Sign(n) * (IF 2 * r >= d THEN q + 1 ELSE q)

\* sum(d.gain_loss_gbp for d in self._disposals) over a non-empty list.
RECURSIVE SumGainLoss(_)
SumGainLoss(disp) ==
    IF disp = <<>> THEN 0 ELSE Head(disp).gain_loss_gbp + SumGainLoss(Tail(disp))

\* Section104Pool.get_net_capital_gains: sum() of no record is the int 0,
\* which has no quantize method.
GetNetCapitalGains(disp) ==
    IF disp = <<>>
    THEN [raised |-> "AttributeError", value |-> 0]
    ELSE [raised |-> "none", value |-> SumGainLoss(disp)]

\* taxable_earnings = interest_received - (mgmt_ibkr + mgmt_other)
TaxableEarnings(acc, mgmt_other) ==
    acc["4100"].credit - (acc["5200"].debit + mgmt_other)

\* icr_limit = (taxable_earnings * Decimal('0.30')).quantize(0.01, ROUND_HALF_UP)
IcrLimit(taxable_earnings) == QuantizeRatio(taxable_earnings * 30, 100)

\* calculate_interest_relief: the InterestReliefResult it returns.
InterestRelief(acc, mgmt_other) ==
    LET interest_paid == acc["5600"].debit
        taxable_earnings == TaxableEarnings(acc, mgmt_other)
        icr_limit == IcrLimit(taxable_earnings)
    IN IF interest_paid = 0 THEN [NoRelief EXCEPT !.some = TRUE]
       ELSE IF taxable_earnings <= 0
       THEN [some |-> TRUE, total_interest_paid |-> interest_paid,
             allowable_interest |-> 0, disallowed_interest |-> interest_paid,
             icr_limit |-> 0, taxable_earnings |-> taxable_earnings,
             icr_applicable |-> TRUE, warning |-> TRUE]
       ELSE [some |-> TRUE, total_interest_paid |-> interest_paid,
             allowable_interest |->
                 IF interest_paid <= icr_limit THEN interest_paid ELSE icr_limit,
             disallowed_interest |->
                 IF interest_paid <= icr_limit THEN 0
                 ELSE interest_paid - icr_limit,
             icr_limit |-> icr_limit, taxable_earnings |-> taxable_earnings,
             icr_applicable |-> TRUE, warning |-> TRUE]

\* calculate_interest_relief keeps its result in self._interest_relief only
\* on the path that computes icr_limit.
calculate_interest_relief(tc, acc) ==
    LET r == InterestRelief(acc, tc.management_expenses)
    IN [tc EXCEPT !.returned = r,
                  !.interest_relief =
                      IF acc["5600"].debit # 0 /\ r.taxable_earnings > 0
                      THEN r ELSE @]

\* taxable_non_trading with the dividend income of account 4000 added.
TaxableNonTradingWithDividends(acc, mgmt_other, allowable_interest) ==
    acc["4000"].credit + acc["4100"].credit - acc["5200"].debit - mgmt_other
        - allowable_interest

\* taxable_non_trading = (interest_income - mgmt_ibkr - mgmt_other
\*                        - allowable_interest).quantize(0.01, ROUND_HALF_UP)
TaxableNonTrading(acc, mgmt_other, allowable_interest) ==
    acc["4100"].credit - acc["5200"].debit - mgmt_other - allowable_interest

\* calculate_taxable_profit: the object after the call and what was raised.
calculate_taxable_profit(tc, acc, disp) ==
    LET t1 == [tc EXCEPT !.adjustments =
                  <<[adjustment_type |-> "exempt", amount |-> acc["4000"].credit]>>]
        t2 == calculate_interest_relief(t1, acc)
        taxable_non_trading ==
            TaxableNonTrading(acc, tc.management_expenses,
                              t2.returned.allowable_interest)
        capital_gains == GetNetCapitalGains(disp)
    IN IF capital_gains.raised # "none"
       THEN [tc |-> t2, raised |-> capital_gains.raised]
       ELSE [tc |-> [t2 EXCEPT
                        !.adjustments =
                            Append(@, [adjustment_type |-> "chargeable_gains",
                                       amount |-> capital_gains.value]),
                        !.taxable_profit =
                            Some(taxable_non_trading + capital_gains.value)],
             raised |-> "none"]

SmallProfitsLimit == 5000000
MainRateLimit == 25000000

\* tax_liability = profit * Decimal('0.19'), quantized half-up.
SmallProfitsTax(profit) == QuantizeRatio(profit * 19, 100)

\* tax_liability = profit * Decimal('0.25'), quantized half-up.
MainRateTax(profit) == QuantizeRatio(profit * 25, 100)

\* The middle tier without the marginal relief.
TaxAtMainRateOnly(profit) == MainRateTax(profit)

\* tax_at_main - marginal_relief
\*   = profit * 0.25 - (250000 - profit) * 3 / 200, quantized half-up.
TaxWithMarginalRelief(profit) ==
    QuantizeRatio(50 * profit - 3 * (MainRateLimit - profit), 200)

\* The liability calculate_corporation_tax computes for a profit.
CorporationTax(profit) ==
    IF profit <= 0 THEN 0
    ELSE IF profit <= SmallProfitsLimit THEN SmallProfitsTax(profit)
    ELSE IF profit >= MainRateLimit THEN MainRateTax(profit)
    ELSE TaxWithMarginalRelief(profit)

\* calculate_corporation_tax(taxable_profit=arg): arg.some = FALSE is None.
calculate_corporation_tax(tc, acc, disp, arg) ==
    LET r == IF arg.some \/ tc.taxable_profit.some
             THEN [tc |-> tc, raised |-> "none"]
             ELSE calculate_taxable_profit(tc, acc, disp)
        profit == IF arg.some THEN arg.v ELSE r.tc.taxable_profit.v
    IN IF r.raised # "none" THEN r
       ELSE [tc |-> [r.tc EXCEPT !.corporation_tax = Some(CorporationTax(profit)),
                                 !.profit_used = Some(profit)],
             raised |-> "none"]

\* generate_ct600_mapping
generate_ct600_mapping(tc, acc, disp) ==
    LET r1 == IF tc.taxable_profit.some
              THEN [tc |-> tc, raised |-> "none"]
              ELSE calculate_taxable_profit(tc, acc, disp)
        r2 == IF r1.raised # "none" \/ r1.tc.corporation_tax.some
              THEN r1
              ELSE calculate_corporation_tax(r1.tc, acc, disp, NoneValue)
        t3 == calculate_interest_relief(r2.tc, acc)
        non_trading == TaxableNonTrading(acc, tc.management_expenses,
                                         t3.returned.allowable_interest)
        chargeable_gains == GetNetCapitalGains(disp)
    IN IF r2.raised # "none" THEN r2
       ELSE IF chargeable_gains.raised # "none"
       THEN [tc |-> t3, raised |-> chargeable_gains.raised]
       ELSE [tc |-> [t3 EXCEPT !.ct600 =
                        [some |-> TRUE,
                         box_13_non_trading_profits |-> non_trading,
                         box_16_chargeable_gains |-> chargeable_gains.value,
                         box_46_taxable_total_profit |-> t3.taxable_profit.v,
                         box_500_corporation_tax |-> t3.corporation_tax.v]],
             raised |-> "none"]

(***************************************************************************)
(* Initial state and actions                                               *)
(***************************************************************************)

Init ==
    /\ pools = [s \in Symbols |-> [qty |-> 0, cost |-> 0]]
    /\ pending = <<>>
    /\ disposals = <<>>
    /\ warnings = 0
    /\ holdings = [s \in Symbols |-> <<>>]
    /\ pc = "trades"
    /\ lastKey = 0
    /\ audit = <<>>
    /\ acquired = [s \in Symbols |-> [qty |-> 0, amount |-> 0]]
    /\ sold = [s \in Symbols |-> [qty |-> 0, amount |-> 0]]
    /\ fifo = [s \in Symbols |-> [bought |-> 0, sold |-> 0, cost_in |-> 0,
                                  cost_out |-> 0, short |-> FALSE,
                                  bought_on |-> [d \in Dates |-> 0],
                                  sold_on |-> [d \in Dates |-> 0]]]
    /\ last = [op |-> "init", date |-> 0]
    /\ events = 0
    /\ accounts = NoPostings
    /\ tax = NewTaxComputation(0)
    /\ raised = "none"

\* The date of the last call made to the matcher.
Today == last.date

\* A caller of Section104Pool adds an acquisition of a symbol of S, with a
\* quantity of QS and a cost of CS, on or after the date of the previous call,
\* while fewer than n calls were made.
AddAcquisition(S, QS, CS, n) ==
    /\ events < n
    /\ \E d \in Dates, s \in S, q \in QS, c \in CS :
           /\ d >= Today
           /\ add_acquisition(d, s, q, c)
           /\ last' = [op |-> "add_acquisition", date |-> d]
    /\ events' = events + 1
    /\ UNCHANGED <<holdings, fifo, pc, lastKey, accounts, tcVars>>

\* A caller of Section104Pool records a disposal of a symbol of S.
RemoveDisposal(S, QS, n) ==
    /\ events < n
    /\ \E d \in Dates, s \in S, q \in QS, p \in ProceedsSet :
           /\ d >= Today
           /\ remove_disposal(d, s, q, p)
           /\ last' = [op |-> "remove_disposal", date |-> d]
    /\ events' = events + 1
    /\ UNCHANGED <<holdings, fifo, pc, lastKey, accounts, tcVars>>

\* A caller of Section104Pool flushes what is pending.
FlushAllPending ==
    /\ flush_all_pending
    /\ last' = [last EXCEPT !.op = "flush_all_pending"]
    /\ UNCHANGED <<holdings, fifo, pc, lastKey, events, accounts, tcVars>>

\* One instrument, MaxEvents calls.
Next ==
    \/ AddAcquisition({"X"}, Qtys, Costs, MaxEvents)
    \/ RemoveDisposal({"X"}, Qtys, MaxEvents)
    \/ FlushAllPending

Spec == Init /\ [][Next]_vars

\* Every instrument, MaxMultiEvents calls.
NextMulti ==
    \/ AddAcquisition(Symbols, Qtys, Costs, MaxMultiEvents)
    \/ RemoveDisposal(Symbols, Qtys, MaxMultiEvents)
    \/ FlushAllPending

SpecMulti == Init /\ [][NextMulti]_vars

\* One instrument, large quantities and costs, MaxWideEvents calls.
NextWide ==
    \/ AddAcquisition({"X"}, WideQtys, WideCosts, MaxWideEvents)
    \/ RemoveDisposal({"X"}, WideQtys, MaxWideEvents)
    \/ FlushAllPending

SpecWide == Init /\ [][NextWide]_vars

\* One instrument, an acquisition split over several small disposals,
\* MaxSplitEvents calls.
NextSplit ==
    \/ AddAcquisition({"X"}, SplitAcqQtys, SplitCosts, MaxSplitEvents)
    \/ RemoveDisposal({"X"}, SplitDispQtys, MaxSplitEvents)
    \/ FlushAllPending

SpecSplit == Init /\ [][NextSplit]_vars

\* process(): the next trade of sorted_trades, fed to the ledger and, for
\* STK/OPT, to the matcher.
ProcessOneTrade(t) ==
    /\ pc = "trades"
    /\ SortKey(t.date, t.is_buy) >= lastKey
    /\ lastKey' = SortKey(t.date, t.is_buy)
    /\ ProcessTradeFifo(t)
    /\ IF t.asset_class \in SECTION_104_ASSET_CLASSES
       THEN ProcessTradeSection104(t)
       ELSE UNCHANGED poolVars
    /\ last' = [op |-> IF t.is_buy THEN "buy" ELSE "sell", date |-> t.date]
    /\ events' = events + 1
    /\ pc' = pc
    /\ UNCHANGED tcVars

\* A trade of the set TS, while fewer than n trades were processed.
ProcessTradeFrom(TS, n) ==
    /\ events < n
    /\ \E t \in TS : ProcessOneTrade(t)

ProcessTrade == ProcessTradeFrom(Trades, MaxTrades)

\* process(): after the last trade, self.section_104.flush_all_pending().
ProcessFlush ==
    /\ pc = "trades"
    /\ flush_all_pending
    /\ pc' = "flushed"
    /\ last' = [last EXCEPT !.op = "flush_all_pending"]
    /\ UNCHANGED <<holdings, fifo, lastKey, events, accounts, tcVars>>

NextPipeline == ProcessTrade \/ ProcessFlush

SpecPipeline == Init /\ [][NextPipeline]_vars

\* A caller of Section104Pool adds an acquisition of X on any date.
AddAcquisitionAnyDate ==
    /\ events < MaxAnyDateEvents
    /\ \E d \in AnyDates, q \in AnyDateQtys, c \in Costs :
           /\ add_acquisition(d, "X", q, c)
           /\ last' = [op |-> "add_acquisition", date |-> d]
    /\ events' = events + 1
    /\ UNCHANGED <<holdings, fifo, pc, lastKey, accounts, tcVars>>

\* A caller of Section104Pool records a disposal of any instrument on any date.
RemoveDisposalAnyDate ==
    /\ events < MaxAnyDateEvents
    /\ \E d \in AnyDates, s \in Symbols, q \in AnyDateQtys, p \in ProceedsSet :
           /\ remove_disposal(d, s, q, p)
           /\ last' = [op |-> "remove_disposal", date |-> d]
    /\ events' = events + 1
    /\ UNCHANGED <<holdings, fifo, pc, lastKey, accounts, tcVars>>

\* Calls of the matcher in any order of dates.
NextAnyDate == AddAcquisitionAnyDate \/ RemoveDisposalAnyDate

SpecAnyDate == Init /\ [][NextAnyDate]_vars

\* Trades as a caller may hand them to the generator: the quantity is not
\* known to be positive.
RawTrades ==
    {[date |-> 0, symbol |-> s, is_buy |-> b, quantity |-> q,
      amount_gbp |-> IF b THEN 2 ELSE 10, asset_class |-> AssetClassOf(s)] :
        s \in Symbols, b \in BOOLEAN, q \in RawQtys}

\* Callers that pass any quantity, to the matcher or through process().
NextRaw ==
    \/ AddAcquisition({"X"}, RawQtys, Costs, MaxRawEvents)
    \/ RemoveDisposal({"X"}, RawQtys, MaxRawEvents)
    \/ ProcessTradeFrom(RawTrades, MaxRawEvents)
    \/ ProcessFlush

SpecRaw == Init /\ [][NextRaw]_vars

(***************************************************************************)
(* Calls of a TaxComputation built on given accounts and a given list of   *)
(* MatchedDisposal records.                                                *)
(***************************************************************************)
\* A MatchedDisposal of one unit of X with the given gain or loss.
GainRecord(gain_loss_gbp) ==
    [date |-> 0, symbol |-> "X", quantity |-> 1, proceeds_gbp |-> gain_loss_gbp,
     cost_gbp |-> 0, gain_loss_gbp |-> gain_loss_gbp,
     matching_rule |-> "section_104"]

\* What the observer audit holds for a record flushed from an empty pool.
GainAudit ==
    [pool_qty |-> 0, pool_cost |-> 0, after_qty |-> 0, after_cost |-> 0,
     warned |-> TRUE, acq |-> NoAcq]

\* The accounts a TaxComputation reads, with the given totals.
MockAccounts(dividend, interest_received, broker_fees, interest_paid) ==
    [NoPostings EXCEPT !["4000"].credit = dividend,
                       !["4100"].credit = interest_received,
                       !["5200"].debit = broker_fees,
                       !["5600"].debit = interest_paid]

InitTax ==
    /\ pools = [s \in Symbols |-> [qty |-> 0, cost |-> 0]]
    /\ pending = <<>>
    /\ \E gs \in GainLists :
           /\ disposals = [i \in 1..Len(gs) |-> GainRecord(gs[i])]
           /\ audit = [i \in 1..Len(gs) |-> GainAudit]
           /\ warnings = Len(gs)
           /\ sold = [s \in Symbols |->
                         IF s = "X"
                         THEN [qty |-> Len(gs),
                               amount |-> SumGainLoss(
                                   [i \in 1..Len(gs) |-> GainRecord(gs[i])])]
                         ELSE [qty |-> 0, amount |-> 0]]
    /\ holdings = [s \in Symbols |-> <<>>]
    /\ pc = "flushed"
    /\ lastKey = 0
    /\ acquired = [s \in Symbols |-> [qty |-> 0, amount |-> 0]]
    /\ fifo = [s \in Symbols |-> [bought |-> 0, sold |-> 0, cost_in |-> 0,
                                  cost_out |-> 0, short |-> FALSE,
                                  bought_on |-> [d \in Dates |-> 0],
                                  sold_on |-> [d \in Dates |-> 0]]]
    /\ last = [op |-> "init", date |-> 0]
    /\ events = 0
    /\ \E dividend \in Dividends, interest_received \in InterestReceived,
          broker_fees \in BrokerFees, interest_paid \in InterestPaid :
           accounts = MockAccounts(dividend, interest_received, broker_fees,
                                   interest_paid)
    /\ \E m \in ManagementExpenses : tax = NewTaxComputation(m)
    /\ raised = "none"

\* A call of a TaxComputation method whose outcome is r, while fewer than n
\* calls were made.
TaxCall(op, r, n) ==
    /\ events < n
    /\ tax' = r.tc
    /\ raised' = r.raised
    /\ last' = [last EXCEPT !.op = op]
    /\ events' = events + 1
    /\ UNCHANGED <<poolVars, holdings, fifo, lastKey, accounts>>

CalculateInterestRelief(n) ==
    /\ \E tc \in {calculate_interest_relief(tax, accounts)} :
           TaxCall("calculate_interest_relief", [tc |-> tc, raised |-> "none"], n)
    /\ pc' = pc

CalculateTaxableProfit(n) ==
    /\ \E r \in {calculate_taxable_profit(tax, accounts, disposals)} :
           TaxCall("calculate_taxable_profit", r, n)
    /\ pc' = pc

\* calculate_corporation_tax() or calculate_corporation_tax(profit).
CalculateCorporationTax(n) ==
    /\ \E arg \in {NoneValue} \cup {Some(p) : p \in ProfitArgs} :
           \E r \in {calculate_corporation_tax(tax, accounts, disposals, arg)} :
               TaxCall("calculate_corporation_tax", r, n)
    /\ pc' = pc

GenerateCt600Mapping(n) ==
    /\ \E r \in {generate_ct600_mapping(tax, accounts, disposals)} :
           TaxCall("generate_ct600_mapping", r, n)
    /\ pc' = pc

NextTax ==
    \/ CalculateInterestRelief(MaxTaxCalls)
    \/ CalculateTaxableProfit(MaxTaxCalls)
    \/ CalculateCorporationTax(MaxTaxCalls)
    \/ GenerateCt600Mapping(MaxTaxCalls)

SpecTax == InitTax /\ [][NextTax]_vars

(***************************************************************************)
(* main() of ibkr_trial_balance.py and run_pipeline() of                   *)
(* validate_tax_computation.py: process() (trades, flush, cash             *)
(* transactions), the owner's loan postings, then the tax computation.     *)
(***************************************************************************)
\* Trades of a stock X and of a currency conversion Y.  The net proceeds of a
\* sell, abs(proceeds) - commission, are negative when the commission is the
\* larger.
MainTrades ==
    {[date |-> 0, symbol |-> s, is_buy |-> TRUE, quantity |-> q,
      amount_gbp |-> c, asset_class |-> IF s = "X" THEN "STK" ELSE "CASH"] :
        s \in Symbols, q \in MainQtys, c \in Costs}
    \cup
    {[date |-> 0, symbol |-> s, is_buy |-> FALSE, quantity |-> q,
      amount_gbp |-> p, asset_class |-> IF s = "X" THEN "STK" ELSE "CASH"] :
        s \in Symbols, q \in MainQtys, p \in MainProceeds}

\* A CashTransaction: type is the set of the words tested by
\* _process_cash_transaction that tx.type.lower() contains.
CashTransactions ==
    {[type |-> t, amount |-> a] :
        t \in {{"dividend"}, {"dividend", "withhold", "tax"}, {"interest"},
               {"fee"}, {"deposit"}, {}},
        a \in CashAmounts}

\* _process_cash_transaction; amount_gbp = to_gbp(abs(tx.amount)).
PostCash(acc, tx) ==
    LET amount_gbp == Abs(tx.amount)
        is_credit == tx.amount > 0
        post(dr, cr) == Credit(Debit(acc, dr, amount_gbp), cr, amount_gbp)
    IN IF "dividend" \in tx.type /\ "withhold" \notin tx.type
       THEN post("1101", "4000")
       ELSE IF "withhold" \in tx.type \/ "tax" \in tx.type
       THEN post("5000", "1101")
       ELSE IF "interest" \in tx.type
       THEN IF is_credit THEN post("1101", "4100") ELSE post("5600", "1101")
       ELSE IF "fee" \in tx.type \/ "commission" \in tx.type
       THEN post("5200", "1101")
       ELSE IF "deposit" \in tx.type \/ "transfer" \in tx.type
       THEN IF is_credit THEN post("1101", "3000") ELSE post("3000", "1101")
       ELSE IF is_credit THEN post("1101", "4100") ELSE post("5200", "1101")

\* process(): the next cash transaction, after the flush.
ProcessCashTransaction ==
    /\ pc = "flushed"
    /\ events < MaxMainEvents
    /\ \E tx \in CashTransactions : accounts' = PostCash(accounts, tx)
    /\ last' = [last EXCEPT !.op = "cash_transaction"]
    /\ events' = events + 1
    /\ UNCHANGED <<poolVars, holdings, fifo, pc, lastKey, tcVars>>

\* apply_owners_loan: the postings of one row, money in or money out.
PostOwnersLoan(acc, section, amt_abs) ==
    IF section = "in"
    THEN Credit(Debit(acc, "1103", amt_abs), "2101", amt_abs)
    ELSE Credit(Debit(acc, "2101", amt_abs), "1103", amt_abs)

\* main(): after process() returned, the next row of the owner's loan file.
ApplyOwnersLoan ==
    /\ pc \in {"flushed", "loan"}
    /\ events < MaxMainEvents
    /\ \E section \in {"in", "out"}, amt_abs \in LoanAmounts :
           accounts' = PostOwnersLoan(accounts, section, amt_abs)
    /\ pc' = "loan"
    /\ last' = [last EXCEPT !.op = "owners_loan"]
    /\ events' = events + 1
    /\ UNCHANGED <<poolVars, holdings, fifo, lastKey, tcVars>>

\* main(): tax_comp = TaxComputation(...); tax_comp.calculate_taxable_profit().
\* An exception ends the run.
MainCalculateTaxableProfit ==
    /\ pc \in {"flushed", "loan"}
    /\ \E m \in ManagementExpenses :
           \E r \in {calculate_taxable_profit(NewTaxComputation(m), accounts,
                                              disposals)} :
               /\ TaxCall("calculate_taxable_profit", r, MaxMainEvents + 3)
               /\ pc' = IF r.raised = "none" THEN "taxable_profit" ELSE "aborted"

\* main(): tax_comp.calculate_corporation_tax()
MainCalculateCorporationTax ==
    /\ pc = "taxable_profit"
    /\ \E r \in {calculate_corporation_tax(tax, accounts, disposals, NoneValue)} :
           /\ TaxCall("calculate_corporation_tax", r, MaxMainEvents + 3)
           /\ pc' = IF r.raised = "none" THEN "corporation_tax" ELSE "aborted"

\* main(): tax_comp.generate_ct600_mapping()
MainGenerateCt600Mapping ==
    /\ pc = "corporation_tax"
    /\ \E r \in {generate_ct600_mapping(tax, accounts, disposals)} :
           /\ TaxCall("generate_ct600_mapping", r, MaxMainEvents + 3)
           /\ pc' = IF r.raised = "none" THEN "done" ELSE "aborted"

NextMain ==
    \/ ProcessTradeFrom(MainTrades, MaxMainTrades)
    \/ ProcessFlush
    \/ ProcessCashTransaction
    \/ ApplyOwnersLoan
    \/ MainCalculateTaxableProfit
    \/ MainCalculateCorporationTax
    \/ MainGenerateCt600Mapping

SpecMain == Init /\ [][NextMain]_vars

(***************************************************************************)
(* Quantities the properties are stated in                                 *)
(***************************************************************************)
RECURSIVE Sum(_)
Sum(xs) == IF xs = <<>> THEN 0 ELSE Head(xs) + Sum(Tail(xs))

\* n/d rounded half-up (half away from zero) to an integer, exactly.
RoundHalfUpDiv(n, d) == Sign(n) * ((2 * Abs(n) + d) \div (2 * d))

\* Quantity and cost of the MatchedDisposal records of symbol s.
MatchedQty(s) ==
    Sum([i \in 1..Len(disposals) |->
            IF disposals[i].symbol = s THEN disposals[i].quantity ELSE 0])

MatchedCost(s) ==
    Sum([i \in 1..Len(disposals) |->
            IF disposals[i].symbol = s THEN disposals[i].cost_gbp ELSE 0])

\* Quantity of the same_day records of symbol s for disposals dated d.
SameDayQty(s, d) ==
    Sum([i \in 1..Len(disposals) |->
            IF /\ disposals[i].symbol = s
               /\ disposals[i].date = d
               /\ disposals[i].matching_rule = "same_day"
            THEN disposals[i].quantity ELSE 0])

\* Quantity of the lots the FIFO ledger holds of symbol s.
HeldLots(s) == Sum([i \in 1..Len(holdings[s]) |-> holdings[s][i].quantity])

\* The section_104 records: flushes against the pool.
Flushes == {i \in 1..Len(disposals) : disposals[i].matching_rule = "section_104"}

\* A flush of symbol s asked for more than the pool held.
Underflowed(s) ==
    \E i \in Flushes :
        disposals[i].symbol = s /\ audit[i].pool_qty < disposals[i].quantity

\* The matcher holds nothing but one pending disposal of q units of s dated d.
OnlyPending(d, s, q) ==
    /\ disposals = <<>>
    /\ \A x \in Symbols : pools[x] = [qty |-> 0, cost |-> 0]
    /\ Len(pending) = 1
    /\ pending[1].date = d
    /\ pending[1].symbol = s
    /\ pending[1].qty_remaining = q
    /\ pending[1].original_qty = q

(***************************************************************************)
(* C1: in the order process() feeds trades (by date, buys before sells on  *)
(* a date), the quantity of a day's disposals of an instrument that        *)
(* overlaps that day's acquisitions of it ends up in same_day records,     *)
(* each costed at the unit cost of the acquisition it was matched to.      *)
(***************************************************************************)
C1_SameDayFirstInPipeline ==
    pc = "flushed" =>
        /\ \A s \in Symbols, d \in Dates :
               AssetClassOf(s) \in SECTION_104_ASSET_CLASSES =>
                   SameDayQty(s, d) = Min(fifo[s].bought_on[d], fifo[s].sold_on[d])
        /\ \A i \in 1..Len(disposals) :
               disposals[i].matching_rule = "same_day" =>
                   /\ audit[i].acq.date = disposals[i].date
                   /\ disposals[i].cost_gbp =
                          MatchCost(audit[i].acq.cost_per_unit, disposals[i].quantity)

(***************************************************************************)
(* C2: on a matcher that holds only a pending disposal of Q units dated D, *)
(* add_acquisition(D, X, Q, C) leaves exactly one MatchedDisposal, tagged  *)
(* same_day, whose cost is C, and no pool quantity for X.                  *)
(***************************************************************************)
C2_SameDayFullCost ==
    [][\A d \in Dates, q \in WideQtys, c \in WideCosts :
           (OnlyPending(d, "X", q) /\ add_acquisition(d, "X", q, c)) =>
               /\ Len(disposals') = 1
               /\ disposals'[1].matching_rule = "same_day"
               /\ disposals'[1].cost_gbp = c
               /\ pools'["X"].qty = 0]_vars

(***************************************************************************)
(* C3: when the only pending disposal of X has q units left and is dated   *)
(* before a, add_acquisition(a, X, q, c) matches it whole with rule        *)
(* thirty_day if a is at most 30 days later; from 31 days on it makes no   *)
(* record, leaves the disposal pending and credits q and c to the pool.    *)
(* Every record flush_all_pending makes is tagged section_104, one per     *)
(* pending disposal.                                                       *)
(***************************************************************************)
C3_ThirtyDayWindow ==
    [][/\ \A a \in Dates, q \in Qtys, c \in Costs :
              ( /\ Len(pending) = 1
                /\ pending[1].symbol = "X"
                /\ pending[1].qty_remaining = q
                /\ pending[1].date < a
                /\ add_acquisition(a, "X", q, c) ) =>
                  IF a - pending[1].date <= 30
                  THEN /\ Len(disposals') = Len(disposals) + 1
                       /\ disposals'[Len(disposals')].matching_rule = "thirty_day"
                       /\ disposals'[Len(disposals')].quantity = q
                       /\ disposals'[Len(disposals')].date = pending[1].date
                       /\ pending' = <<>>
                       /\ pools' = pools
                  ELSE /\ disposals' = disposals
                       /\ pending' = pending
                       /\ pools'["X"] = [qty |-> pools["X"].qty + q,
                                         cost |-> pools["X"].cost + c]
       /\ flush_all_pending =>
              /\ Len(disposals') = Len(disposals) + Len(pending)
              /\ \A i \in (Len(disposals) + 1)..Len(disposals') :
                     disposals'[i].matching_rule = "section_104"]_vars

\* A disposal of day 0, an equal acquisition 31 days later credited to the
\* pool, and the disposal flushed from that pool.
C3_Witness ==
    /\ last = [op |-> "flush_all_pending", date |-> 31]
    /\ Len(disposals) = 1
    /\ disposals[1].matching_rule = "section_104"
    /\ disposals[1].date = 0
    /\ disposals[1].quantity = acquired["X"].qty
    /\ audit[1].pool_qty = acquired["X"].qty
    /\ events = 2

(***************************************************************************)
(* C4: a flush of q units against a pool of Q units costing C, 0 < q <= Q, *)
(* makes a section_104 record whose cost is C*q/Q rounded half-up to a     *)
(* penny and whose gain is proceeds minus that cost, and leaves the pool   *)
(* at (Q - q, C - cost).                                                   *)
(***************************************************************************)
C4_FlushProRataCost ==
    \A i \in Flushes :
        (0 < disposals[i].quantity /\ disposals[i].quantity <= audit[i].pool_qty) =>
            LET cost == RoundHalfUpDiv(audit[i].pool_cost * disposals[i].quantity,
                                       audit[i].pool_qty)
            IN /\ disposals[i].cost_gbp = cost
               /\ disposals[i].gain_loss_gbp = disposals[i].proceeds_gbp - cost
               /\ audit[i].after_qty = audit[i].pool_qty - disposals[i].quantity
               /\ audit[i].after_cost = audit[i].pool_cost - cost

(***************************************************************************)
(* C5: every pool has quantity >= 0 and cost >= 0 after every call.        *)
(***************************************************************************)
C5_PoolNonNegative ==
    \A s \in Symbols : pools[s].qty >= 0 /\ pools[s].cost >= 0

(***************************************************************************)
(* C6: a flush that asks for more than the pool holds (pool empty, or      *)
(* smaller than the disposal's remaining quantity) still makes its record, *)
(* leaves the pool at zero and emits a warning.                            *)
(***************************************************************************)
C6_UnderflowWarns ==
    /\ Len(audit) = Len(disposals)
    /\ \A i \in Flushes :
           audit[i].pool_qty < disposals[i].quantity =>
               /\ audit[i].warned
               /\ audit[i].after_qty = 0
               /\ audit[i].after_cost = 0

(***************************************************************************)
(* C7: the cost of a section_104 record never exceeds the cost the pool    *)
(* held just before the flush.                                             *)
(***************************************************************************)
C7_FlushCostWithinPool ==
    \A i \in Flushes : disposals[i].cost_gbp <= audit[i].pool_cost

(***************************************************************************)
(* C8: after the end-of-stream flush, for every instrument, acquired minus *)
(* matched quantity is the pool's quantity, and bought minus sold quantity *)
(* is the quantity of the FIFO lots left.                                  *)
(***************************************************************************)
C8_QuantityConservation ==
    pc = "flushed" =>
        \A s \in Symbols :
            /\ acquired[s].qty - MatchedQty(s) = pools[s].qty
            /\ fifo[s].bought - fifo[s].sold = HeldLots(s)

(***************************************************************************)
(* C8 as amended: the two equalities hold for an instrument of which no    *)
(* flush (no sale) asked for more than the pool (the ledger) held; in      *)
(* every case the quantity held is at least acquired minus disposed.       *)
(***************************************************************************)
C8_QuantityConservationNoShortfall ==
    pc = "flushed" =>
        \A s \in Symbols :
            /\ ~Underflowed(s) => acquired[s].qty - MatchedQty(s) = pools[s].qty
            /\ acquired[s].qty - MatchedQty(s) <= pools[s].qty
            /\ ~fifo[s].short => fifo[s].bought - fifo[s].sold = HeldLots(s)
            /\ fifo[s].bought - fifo[s].sold <= HeldLots(s)

\* Part of a holding sold and flushed from the pool, the rest still held in
\* the pool and in the ledger.
C8_Witness ==
    /\ pc = "flushed"
    /\ ~Underflowed("X")
    /\ ~fifo["X"].short
    /\ MatchedQty("X") > 0
    /\ pools["X"].qty > 0
    /\ pools["X"].qty = acquired["X"].qty - MatchedQty("X")
    /\ HeldLots("X") = pools["X"].qty
    /\ Len(holdings["X"]) > 0

(***************************************************************************)
(* C9: after flush_all_pending, for every instrument, the cost of all      *)
(* acquisitions is the cost of its MatchedDisposal records plus the cost   *)
(* left in its pool, to within a penny.                                    *)
(***************************************************************************)
C9_CostConservation ==
    last.op = "flush_all_pending" =>
        \A s \in Symbols :
            Abs(acquired[s].amount - (MatchedCost(s) + pools[s].cost)) <= 1

(***************************************************************************)
(* C10: when flush_all_pending returns no disposal is pending, for any     *)
(* instrument; a second flush_all_pending right after it adds no record    *)
(* and no warning and changes no pool.                                     *)
(***************************************************************************)
C10_FlushAllEmptiesPending ==
    [][/\ last'.op = "flush_all_pending" => pending' = <<>>
       /\ (last.op = "flush_all_pending" /\ last'.op = "flush_all_pending") =>
              UNCHANGED <<pools, pending, disposals, warnings>>]_vars

\* Disposals of two instruments were pending and the flush recorded both.
C10_Witness ==
    /\ last.op = "flush_all_pending"
    /\ pending = <<>>
    /\ \A s \in Symbols : \E i \in Flushes : disposals[i].symbol = s

(***************************************************************************)
(* C11: get_net_capital_gains returns, without raising, the sum of         *)
(* gain_loss_gbp over the MatchedDisposal records (0 when there is none),  *)
(* and a call of calculate_taxable_profit completes with the taxable       *)
(* profit computed from it.                                                *)
(***************************************************************************)
C11_NetGainsTotalNeverRaises ==
    /\ GetNetCapitalGains(disposals).raised = "none"
    /\ GetNetCapitalGains(disposals).value = SumGainLoss(disposals)
    /\ last.op = "calculate_taxable_profit" =>
           /\ raised = "none"
           /\ tax.taxable_profit =
                  Some(TaxableNonTrading(accounts, tax.management_expenses,
                                         tax.returned.allowable_interest)
                       + SumGainLoss(disposals))

(***************************************************************************)
(* C12: what calculate_interest_relief returns, for any interest paid,     *)
(* interest income and deductible expenses: when the earnings (interest    *)
(* income less deductible expenses) are positive the allowable interest is *)
(* the smaller of the interest paid and 30% of the earnings (to the        *)
(* penny); when they are not, it is 0 and a warning is attached; always    *)
(* disallowed = paid - allowable and 0 <= allowable <= paid.               *)
(***************************************************************************)
C12_InterestReliefContract ==
    last.op = "calculate_interest_relief" =>
        LET r == tax.returned
            interest_paid == accounts["5600"].debit
            earnings == accounts["4100"].credit
                            - (accounts["5200"].debit + tax.management_expenses)
        IN /\ r.some
           /\ earnings > 0 =>
                  r.allowable_interest =
                      Min(interest_paid, RoundHalfUpDiv(30 * earnings, 100))
           /\ earnings <= 0 => r.allowable_interest = 0 /\ r.warning
           /\ r.disallowed_interest = interest_paid - r.allowable_interest
           /\ 0 <= r.allowable_interest
           /\ r.allowable_interest <= interest_paid

(***************************************************************************)
(* C13: dividend income (account 4000) is no part of the tax base.  Two    *)
(* computations that differ only in the dividend income, taken through     *)
(* the same call from states that agree on everything but the dividend,    *)
(* raise or return alike and agree on the taxable profit, the Corporation  *)
(* Tax and the CT600 boxes; and the taxable profit is (interest income     *)
(* - deductible expenses - allowable interest) + net capital gain.         *)
(***************************************************************************)
\* The accounts with the dividend income replaced by d.
WithDividend(acc, d) == [acc EXCEPT !["4000"].credit = d]

\* The object as it is in the computation whose dividend income is d.
TaxWithDividend(tc, d) ==
    [tc EXCEPT !.adjustments =
        [i \in DOMAIN @ |->
            IF @[i].adjustment_type = "exempt"
            THEN [@[i] EXCEPT !.amount = d] ELSE @[i]]]

\* Two outcomes agree on everything but the reconciliation lines.
SameTaxOutcome(r1, r2) ==
    /\ r1.raised = r2.raised
    /\ [r1.tc EXCEPT !.adjustments = <<>>] = [r2.tc EXCEPT !.adjustments = <<>>]

C13_DividendExcluded ==
    /\ \A d \in Dividends :
           LET acc2 == WithDividend(accounts, d)
               tc2 == TaxWithDividend(tax, d)
           IN /\ SameTaxOutcome(calculate_taxable_profit(tax, accounts, disposals),
                                calculate_taxable_profit(tc2, acc2, disposals))
              /\ \A arg \in {NoneValue} \cup {Some(p) : p \in ProfitArgs} :
                     SameTaxOutcome(
                         calculate_corporation_tax(tax, accounts, disposals, arg),
                         calculate_corporation_tax(tc2, acc2, disposals, arg))
              /\ SameTaxOutcome(generate_ct600_mapping(tax, accounts, disposals),
                                generate_ct600_mapping(tc2, acc2, disposals))
    /\ tax.taxable_profit.some =>
           tax.taxable_profit.v =
               (accounts["4100"].credit
                    - (accounts["5200"].debit + tax.management_expenses)
                    - tax.returned.allowable_interest)
               + Sum([i \in 1..Len(disposals) |-> disposals[i].gain_loss_gbp])

\* A computation with dividend income went through to its CT600 mapping.
C13_Witness ==
    /\ last.op = "generate_ct600_mapping"
    /\ raised = "none"
    /\ tax.ct600.some
    /\ accounts["4000"].credit > 0
    /\ tax.taxable_profit.v > 0
    /\ tax.ct600.box_46_taxable_total_profit = tax.taxable_profit.v

(***************************************************************************)
(* C14: calculate_corporation_tax is continuous at both thresholds.  At a  *)
(* profit of 50,000 the small-profits formula and the marginal-relief      *)
(* formula give the same liability, at 250,000 the marginal-relief formula *)
(* and the main-rate formula give the same liability, and the liability    *)
(* computed for a profit differs by at most one penny from the liability   *)
(* of the profit one penny below or above it.                              *)
(***************************************************************************)
C14_ContinuousAtThresholds ==
    /\ SmallProfitsTax(SmallProfitsLimit) = TaxWithMarginalRelief(SmallProfitsLimit)
    /\ TaxWithMarginalRelief(MainRateLimit) = MainRateTax(MainRateLimit)
    /\ (last.op = "calculate_corporation_tax" /\ raised = "none") =>
           /\ tax.corporation_tax = Some(CorporationTax(tax.profit_used.v))
           /\ \A step \in {-1, 1} :
                  Abs(CorporationTax(tax.profit_used.v + step)
                          - tax.corporation_tax.v) <= 1

\* The liability was computed for the profit one penny above 50,000.
C14_Witness ==
    /\ last.op = "calculate_corporation_tax"
    /\ raised = "none"
    /\ tax.profit_used = Some(SmallProfitsLimit + 1)
    /\ tax.corporation_tax = Some(950000)

(***************************************************************************)
(* C15: when generate_ct600_mapping returns, after any calls of            *)
(* calculate_taxable_profit and calculate_corporation_tax (with or without *)
(* an explicit profit), box 46 is the taxable profit and box 500 is the    *)
(* Corporation Tax of that same taxable profit.                            *)
(***************************************************************************)
C15_Ct600Consistent ==
    (last.op = "generate_ct600_mapping" /\ raised = "none") =>
        /\ tax.ct600.some
        /\ tax.taxable_profit.some
        /\ tax.ct600.box_46_taxable_total_profit = tax.taxable_profit.v
        /\ tax.ct600.box_500_corporation_tax = CorporationTax(tax.taxable_profit.v)

(***************************************************************************)
(* C16: a negative quantity passed to add_acquisition, to remove_disposal  *)
(* or to the FIFO ledger (a buy or a sell handed to _process_trade) is     *)
(* raised to the caller as a failure.                                      *)
(***************************************************************************)
C16_NegativeQuantityRaises ==
    [][/\ \A d \in Dates, q \in RawQtys, c \in Costs :
              (/\ q < 0
               /\ add_acquisition(d, "X", q, c)
               /\ last' = [op |-> "add_acquisition", date |-> d])
                  => raised' # "none"
       /\ \A d \in Dates, q \in RawQtys, p \in ProceedsSet :
              (/\ q < 0
               /\ remove_disposal(d, "X", q, p)
               /\ last' = [op |-> "remove_disposal", date |-> d])
                  => raised' # "none"
       /\ \A t \in RawTrades :
              (t.quantity < 0 /\ ProcessOneTrade(t)) => raised' # "none"]_vars

(***************************************************************************)
(* C17: FIFO cost conservation is exact.  After any trades, for every      *)
(* instrument, the cost of all the lots bought equals the sum of the costs *)
(* _calculate_fifo_cost returned plus the cost of the lots still held,     *)
(* also after a sale of part of a lot and after a sale of more than was    *)
(* held.                                                                   *)
(***************************************************************************)
C17_FifoCostConservation ==
    \A s \in Symbols :
        fifo[s].cost_in =
            fifo[s].cost_out
                + Sum([i \in 1..Len(holdings[s]) |-> holdings[s][i].cost_gbp])

\* Part of a lot of X was sold, and more of Y was sold than was held.
C17_Witness ==
    /\ fifo["X"].cost_out > 0
    /\ \E i \in 1..Len(holdings["X"]) : holdings["X"][i].cost_gbp \notin Costs
    /\ fifo["Y"].short

(***************************************************************************)
(* C18: the trial balance is balanced after every posted event.  After     *)
(* each trade (a buy, a sell at a gain, at a loss, with negative net       *)
(* proceeds), each cash transaction and each owner's loan posting, the     *)
(* debits of all accounts add up to the credits of all accounts, also when *)
(* _debit or _credit was given a negative amount.                          *)
(***************************************************************************)
\* total_debits, total_credits: sum(row['debit'] ...), sum(row['credit'] ...)
RECURSIVE TotalOf(_, _, _)
TotalOf(acc, codes, side) ==
    IF codes = {} THEN 0
    ELSE LET c == CHOOSE x \in codes : TRUE
         IN (IF side = "debit" THEN acc[c].debit ELSE acc[c].credit)
                + TotalOf(acc, codes \ {c}, side)

C18_TrialBalanceBalanced ==
    TotalOf(accounts, AccountCodes, "debit") = TotalOf(accounts, AccountCodes, "credit")

\* A stock was sold for negative net proceeds (the loss posted exceeds the
\* cost of what was sold), a dividend was received and an owner's loan posted.
C18_Witness ==
    /\ accounts["5400"].debit > fifo["X"].cost_out
    /\ accounts["4000"].credit > 0
    /\ accounts["2101"].credit > 0
    /\ last.op = "owners_loan"

(***************************************************************************)
(* C19: in a run of main or run_pipeline the tax computation reads the     *)
(* matcher only after the trade loop and flush_all_pending: whenever a     *)
(* method of TaxComputation runs, process() has flushed and no disposal is *)
(* pending, and from the first such call on no trade is processed and the  *)
(* matcher and the lots do not change.                                     *)
(***************************************************************************)
C19_TaxAfterFlush ==
    [][/\ (tax' # tax \/ last'.op \in {"calculate_taxable_profit",
                                       "calculate_corporation_tax",
                                       "generate_ct600_mapping"}) =>
              /\ pc \in {"flushed", "loan", "taxable_profit", "corporation_tax"}
              /\ pending = <<>>
              /\ UNCHANGED <<poolVars, holdings, fifo, lastKey>>
       /\ pc \in {"taxable_profit", "corporation_tax", "done", "aborted"} =>
              UNCHANGED <<poolVars, holdings, fifo, lastKey>>]_vars

\* Disposals were pending when the trades ended, were flushed, and the tax
\* computation ran through on their records.
C19_Witness ==
    /\ pc = "done"
    /\ tax.ct600.some
    /\ pending = <<>>
    /\ Flushes # {}
    /\ tax.ct600.box_16_chargeable_gains =
           Sum([i \in 1..Len(disposals) |-> disposals[i].gain_loss_gbp])

(***************************************************************************)
(* C20: add_acquisition of X dated D matches the pending disposals of X    *)
(* dated D first, in insertion order, then those dated 1 to 30 days before *)
(* D by ascending date; each takes the smaller of what is left of the      *)
(* acquisition and what is left of the disposal, so that a 30-day disposal *)
(* gets quantity only when every same-day disposal is exhausted; what is   *)
(* left of the acquisition after all matches, and only that, is credited   *)
(* to the pool.                                                            *)
(***************************************************************************)
\* The pending disposal i is a candidate of an acquisition of X dated d.
C20_SameDay(i, d) == pending[i].symbol = "X" /\ pending[i].date = d

C20_ThirtyDay(i, d) ==
    /\ pending[i].symbol = "X"
    /\ pending[i].date < d
    /\ d - pending[i].date <= 30

\* Candidate j is served before candidate i.
C20_Before(j, i, d) ==
    \/ C20_SameDay(j, d) /\ C20_SameDay(i, d) /\ j < i
    \/ C20_SameDay(j, d) /\ C20_ThirtyDay(i, d)
    \/ /\ C20_ThirtyDay(j, d)
       /\ C20_ThirtyDay(i, d)
       /\ \/ pending[j].date < pending[i].date
          \/ pending[j].date = pending[i].date /\ j < i

\* What candidate i gets of an acquisition of q units dated d.
C20_Share(i, d, q) ==
    IF ~(C20_SameDay(i, d) \/ C20_ThirtyDay(i, d)) THEN 0
    ELSE LET before == Sum([j \in 1..Len(pending) |->
                               IF C20_Before(j, i, d)
                               THEN pending[j].qty_remaining ELSE 0])
         IN Min(pending[i].qty_remaining,
                IF q > before THEN q - before ELSE 0)

C20_MatchOrder ==
    [][last'.op = "add_acquisition" =>
          LET d == last'.date
              q == acquired'["X"].qty - acquired["X"].qty
              n == Len(pending)
              served == {i \in 1..n : C20_Share(i, d, q) > 0}
              rank(i) == Cardinality({j \in served : C20_Before(j, i, d)}) + 1
              left == [i \in 1..n |->
                          [pending[i] EXCEPT !.qty_remaining =
                              @ - C20_Share(i, d, q)]]
          IN /\ pending' = SelectSeq(left, LAMBDA x : x.qty_remaining > 0)
             /\ Len(disposals') = Len(disposals) + Cardinality(served)
             /\ SubSeq(disposals', 1, Len(disposals)) = disposals
             /\ \A i \in served :
                    LET rec == disposals'[Len(disposals) + rank(i)]
                    IN /\ rec.symbol = "X"
                       /\ rec.date = pending[i].date
                       /\ rec.quantity = C20_Share(i, d, q)
                       /\ rec.matching_rule =
                              IF pending[i].date = d THEN "same_day"
                              ELSE "thirty_day"
             /\ \A i \in served :
                    C20_ThirtyDay(i, d) =>
                        \A j \in 1..n :
                            C20_SameDay(j, d) =>
                                C20_Share(j, d, q) = pending[j].qty_remaining
             /\ pools'["X"].qty =
                    pools["X"].qty
                        + (q - Sum([i \in 1..n |-> C20_Share(i, d, q)]))
             /\ pools'["Y"] = pools["Y"]]_vars

\* One acquisition was matched to a same-day disposal and then to a 30-day
\* disposal, while a later-dated 30-day disposal stayed pending.
C20_Witness ==
    /\ last.op = "add_acquisition"
    /\ \E k \in 1..(Len(disposals) - 1) :
           /\ disposals[k].matching_rule = "same_day"
           /\ disposals[k + 1].matching_rule = "thirty_day"
           /\ disposals[k].date = last.date
           /\ audit[k].acq = audit[k + 1].acq
           /\ \E i \in 1..Len(pending) :
                  /\ pending[i].symbol = "X"
                  /\ pending[i].date > disposals[k + 1].date
                  /\ pending[i].date < last.date

(***************************************************************************)
(* C21: remove_disposal(D, X, ...) flushes against the pool, as            *)
(* section_104 records in list order, exactly the pending disposals of X   *)
(* dated more than 30 days before D, and then appends the new disposal at  *)
(* the end of the pending list; the pending disposals of X whose window is *)
(* still open, the pending disposals of the other instruments and the      *)
(* pools of the other instruments are left as they were.                   *)
(***************************************************************************)
C21_RemoveDisposalFrame ==
    [][last'.op = "remove_disposal" =>
          \E x \in Symbols :
              LET D == last'.date
                  n == Len(pending)
                  due == {i \in 1..n : pending[i].symbol = x
                                       /\ pending[i].date + 30 < D}
                  kept == SelectSeq([i \in 1..n |-> i], LAMBDA i : i \notin due)
                  rank(i) == Cardinality({j \in due : j < i}) + 1
              IN /\ sold'[x].qty > sold[x].qty
                 /\ \A y \in Symbols \ {x} : pools'[y] = pools[y] /\ sold'[y] = sold[y]
                 /\ due = {} => pools' = pools
                 /\ Len(pending') = Len(kept) + 1
                 /\ \A k \in 1..Len(kept) : pending'[k] = pending[kept[k]]
                 /\ pending'[Len(kept) + 1] =
                        [date |-> D, symbol |-> x,
                         qty_remaining |-> sold'[x].qty - sold[x].qty,
                         original_qty |-> sold'[x].qty - sold[x].qty,
                         total_proceeds_gbp |-> sold'[x].amount - sold[x].amount]
                 /\ Len(disposals') = Len(disposals) + Cardinality(due)
                 /\ SubSeq(disposals', 1, Len(disposals)) = disposals
                 /\ \A i \in due :
                        LET rec == disposals'[Len(disposals) + rank(i)]
                        IN /\ rec.symbol = x
                           /\ rec.date = pending[i].date
                           /\ rec.quantity = pending[i].qty_remaining
                           /\ rec.matching_rule = "section_104"]_vars

\* remove_disposal of X flushed the disposal of X dated 31 days earlier, kept
\* the one dated 30 days earlier and a disposal of Y, and appended the new one.
C21_Witness ==
    /\ last.op = "remove_disposal"
    /\ Len(pending) = 3
    /\ pending[3].symbol = "X" /\ pending[3].date = last.date
    /\ \E i \in 1..2 : pending[i].symbol = "X" /\ pending[i].date + 30 = last.date
    /\ \E i \in 1..2 : pending[i].symbol = "Y"
    /\ Len(disposals) = 1
    /\ disposals[1].matching_rule = "section_104"
    /\ disposals[1].symbol = "X"
    /\ disposals[1].date + 30 < last.date

(***************************************************************************)
(* C22: a pending disposal is created with qty_remaining = original_qty,   *)
(* is matched in parts and leaves the pending list when exhausted or       *)
(* flushed.  After every operation each pending disposal has               *)
(* 0 < qty_remaining <= original_qty; a disposal that stays pending keeps  *)
(* its place and its qty_remaining does not increase; the only disposal    *)
(* that enters the list is the one remove_disposal appends; and the        *)
(* MatchedDisposal records an operation emits are exactly the quantities   *)
(* taken from the disposals that were pending before it.                   *)
(***************************************************************************)
C22_Lifecycle ==
    [][\E K \in SUBSET (1..Len(pending)) :
          LET n == Len(pending)
              kept == SelectSeq([i \in 1..n |-> i], LAMBDA i : i \in K)
              m == Len(kept)
              rank(i) == Cardinality({j \in K : j <= i})
              left(i) == IF i \in K THEN pending'[rank(i)].qty_remaining ELSE 0
              emitted == SubSeq(disposals', Len(disposals) + 1, Len(disposals'))
          IN /\ Len(pending') \in {m, m + 1}
             /\ Len(pending') = m + 1 =>
                    /\ last'.op = "remove_disposal"
                    /\ pending'[m + 1].qty_remaining = pending'[m + 1].original_qty
             /\ \A i \in 1..Len(pending') :
                    /\ 0 < pending'[i].qty_remaining
                    /\ pending'[i].qty_remaining <= pending'[i].original_qty
             /\ \A k \in 1..m :
                    /\ pending'[k] = [pending[kept[k]] EXCEPT !.qty_remaining =
                                          pending'[k].qty_remaining]
                    /\ pending'[k].qty_remaining <= pending[kept[k]].qty_remaining
             /\ Len(disposals') >= Len(disposals)
             /\ SubSeq(disposals', 1, Len(disposals)) = disposals
             /\ \A s \in Symbols, d \in Dates :
                    Sum([j \in 1..Len(emitted) |->
                            IF emitted[j].symbol = s /\ emitted[j].date = d
                            THEN emitted[j].quantity ELSE 0])
                    = Sum([i \in 1..n |->
                            IF pending[i].symbol = s /\ pending[i].date = d
                            THEN pending[i].qty_remaining - left(i) ELSE 0])]_vars

\* A disposal of 3 was matched in part (one left pending), then exhausted by a
\* later acquisition, and the pending list is empty again.
C22_Witness ==
    /\ pending = <<>>
    /\ last.op = "add_acquisition"
    /\ Len(disposals) = 2
    /\ sold["X"].qty = 3
    /\ disposals[1].quantity = 2 /\ disposals[2].quantity = 1
    /\ disposals[1].matching_rule = "same_day"
    /\ disposals[2].matching_rule = "thirty_day"

(***************************************************************************)
(* C23: _calculate_fifo_cost consumes the lots oldest first.  It returns   *)
(* the full cost of every wholly consumed lot plus, for at most one partly *)
(* consumed lot, that lot's cost * (consumed quantity / lot quantity)      *)
(* rounded half-up to 0.01; the partly consumed lot stays at the head of   *)
(* the queue with the residual quantity, the residual cost and its date,   *)
(* and the later lots are untouched and keep their order.                  *)
(***************************************************************************)
C23_FifoOldestFirst ==
    [][last'.op = "sell" =>
          \E x \in Symbols :
              LET lots == holdings[x]
                  n == Len(lots)
                  quantity == fifo'[x].sold - fifo[x].sold
                  held(k) == Sum([i \in 1..k |-> lots[i].quantity])
                  whole == CHOOSE k \in 0..n :
                               /\ held(k) <= quantity
                               /\ k < n => held(k + 1) > quantity
                  rest == quantity - held(whole)
                  partial == whole < n /\ rest > 0
                  lot == lots[whole + 1]
                  cost_consumed == RoundHalfUpDiv(lot.cost_gbp * rest, lot.quantity)
                  later == SubSeq(lots, whole + (IF partial THEN 2 ELSE 1), n)
              IN /\ quantity > 0
                 /\ fifo'[x].cost_out - fifo[x].cost_out =
                        Sum([i \in 1..whole |-> lots[i].cost_gbp])
                            + (IF partial THEN cost_consumed ELSE 0)
                 /\ holdings'[x] =
                        (IF partial
                         THEN <<[date |-> lot.date,
                                 quantity |-> lot.quantity - rest,
                                 cost_gbp |-> lot.cost_gbp - cost_consumed]>>
                         ELSE <<>>) \o later
                 /\ \A y \in Symbols \ {x} : holdings'[y] = holdings[y]]_vars

(***************************************************************************)
(* C24: a FIFO disposal of more than is held (no lot held included) raises *)
(* nothing: every held lot is consumed, the cost returned is the total     *)
(* cost of the lots held, the ledger of the instrument is left empty and   *)
(* the processing of trades goes on.                                       *)
(***************************************************************************)
C24_FifoShortfall ==
    [][last'.op = "sell" =>
          \A x \in Symbols :
              LET lots == holdings[x]
                  quantity == fifo'[x].sold - fifo[x].sold
                  held_qty == Sum([i \in 1..Len(lots) |-> lots[i].quantity])
                  held_cost == Sum([i \in 1..Len(lots) |-> lots[i].cost_gbp])
              IN quantity > held_qty =>
                     /\ holdings'[x] = <<>>
                     /\ fifo'[x].cost_out - fifo[x].cost_out = held_cost
                     /\ fifo'[x].short
                     /\ raised' = "none"
                     /\ pc' = "trades"
                     /\ events' = events + 1]_vars

\* More X was sold than the lot held, which cost 0.09, and a later buy of X
\* was processed into an empty ledger.
C24_Witness ==
    /\ fifo["X"].short
    /\ fifo["X"].sold = 4
    /\ fifo["X"].cost_out = 9
    /\ fifo["X"].cost_in > 9
    /\ last.op = "buy"
    /\ Len(holdings["X"]) = 1

(***************************************************************************)
(* C25: instruments are independent.  What an operation leaves for an      *)
(* instrument (its pool, its pending disposals, its MatchedDisposal        *)
(* records in order) is what the same operation leaves when the matcher    *)
(* holds nothing of the other instruments, and an operation on another     *)
(* instrument leaves it unchanged; so two event sequences with the same    *)
(* per-instrument subsequences end with the same per-instrument pools and  *)
(* records.                                                                *)
(***************************************************************************)
\* What the matcher state st holds of instrument x.
C25_Of(x, st) ==
    [pool |-> st.pools[x],
     pending |-> SelectSeq(st.pending, LAMBDA d : d.symbol = x),
     disposals |-> SelectSeq(st.disposals, LAMBDA r : r.symbol = x)]

\* The matcher holding what it holds of instrument x and nothing else.
C25_Alone(x) ==
    [pools |-> [s \in Symbols |->
                   IF s = x THEN pools[s] ELSE [qty |-> 0, cost |-> 0]],
     pending |-> SelectSeq(pending, LAMBDA d : d.symbol = x),
     disposals |-> SelectSeq(disposals, LAMBDA r : r.symbol = x),
     warnings |-> 0, audit |-> <<>>]

\* The matcher after the step.
C25_After ==
    [pools |-> pools', pending |-> pending', disposals |-> disposals',
     warnings |-> warnings', audit |-> audit']

C25_AddAlone(x, acq_date, qty, cost_gbp) ==
    LET alone == C25_Alone(x)
        acq == [date |-> acq_date, qty |-> qty, cost |-> cost_gbp,
                cost_per_unit |-> CostPerUnit(cost_gbp, qty)]
        st == MatchLoop([pending |-> alone.pending, disposals |-> alone.disposals,
                         audit |-> <<>>,
                         remaining_qty |-> qty, remaining_cost |-> cost_gbp],
                        ToMatch(alone.pending, x, acq_date), x, acq)
    IN [pool |-> CreditPool(pools[x], st.remaining_qty, st.remaining_cost),
        pending |-> RemoveExhausted(st.pending),
        disposals |-> st.disposals]

C25_RemoveAlone(x, disp_date, qty, proceeds_gbp) ==
    LET st == FlushPendingDisposalsForSymbol(C25_Alone(x), x, disp_date)
    IN [pool |-> st.pools[x],
        pending |-> Append(st.pending,
                           [date |-> disp_date, symbol |-> x,
                            qty_remaining |-> qty, original_qty |-> qty,
                            total_proceeds_gbp |-> proceeds_gbp]),
        disposals |-> st.disposals]

C25_Independent ==
    [][\A x \in Symbols :
          C25_Of(x, C25_After) =
              IF last'.op = "add_acquisition" /\ acquired'[x] # acquired[x]
              THEN C25_AddAlone(x, last'.date,
                                acquired'[x].qty - acquired[x].qty,
                                acquired'[x].amount - acquired[x].amount)
              ELSE IF last'.op = "remove_disposal" /\ sold'[x] # sold[x]
              THEN C25_RemoveAlone(x, last'.date,
                                   sold'[x].qty - sold[x].qty,
                                   sold'[x].amount - sold[x].amount)
              ELSE IF last'.op = "flush_all_pending"
              THEN C25_Of(x, FlushPendingDisposalsForSymbol(C25_Alone(x), x,
                                                            FlushAllDate))
              ELSE C25_Of(x, Matcher)]_vars

\* An acquisition of X was matched to the pending disposal of X on a day on
\* which a disposal of Y was pending too, and the disposal of Y still is.
C25_Witness ==
    /\ last.op = "add_acquisition"
    /\ acquired["X"].qty > 0
    /\ Len(disposals) = 1
    /\ disposals[1].symbol = "X"
    /\ disposals[1].matching_rule = "same_day"
    /\ Len(pending) = 1
    /\ pending[1].symbol = "Y"
    /\ pending[1].date = last.date

(***************************************************************************)
(* C26: the cost of a section_104 record for a disposal dated D is         *)
(* computed from pool holdings built only from acquisitions dated on or    *)
(* before D; an acquisition dated after D that was not matched to the      *)
(* disposal does not enter the pool the record is costed from.  So the     *)
(* pool quantity a section_104 record was costed from is at most the       *)
(* quantity of the instrument bought on or before the disposal's date.     *)
(***************************************************************************)
\* The quantity of s bought on or before date D.
C26_BoughtBy(s, D) ==
    LET f[S \in SUBSET Dates] ==
            IF S = {} THEN 0
            ELSE LET d == CHOOSE d \in S : TRUE
                 IN (IF d <= D THEN fifo[s].bought_on[d] ELSE 0) + f[S \ {d}]
    IN f[Dates]

C26_CostFromEarlierAcquisitions ==
    \A i \in 1..Len(disposals) :
        disposals[i].matching_rule = "section_104" =>
            audit[i].pool_qty <= C26_BoughtBy(disposals[i].symbol, disposals[i].date)

(***************************************************************************)
(* C27: no cost is stranded in an empty pool.  After every                 *)
(* add_acquisition, remove_disposal and flush_all_pending (quantities      *)
(* positive, costs non-negative), an instrument whose pool quantity is     *)
(* zero has a pool cost of zero.                                           *)
(***************************************************************************)
C27_NoStrandedCost ==
    \A s \in Symbols : pools[s].qty = 0 => pools[s].cost = 0

(***************************************************************************)
(* C28: proceeds do not drift.  Once the whole quantity of every disposal  *)
(* of an instrument is accounted for (by any number of partial same-day or *)
(* 30-day matches and a pool flush), the proceeds_gbp of its               *)
(* MatchedDisposal records sum exactly to the total proceeds of its        *)
(* disposals.                                                              *)
(***************************************************************************)
C28_ProceedsDoNotDrift ==
    \A s \in Symbols :
        (\A i \in 1..Len(pending) : pending[i].symbol # s) =>
            Sum([i \in 1..Len(disposals) |->
                    IF disposals[i].symbol = s THEN disposals[i].proceeds_gbp ELSE 0])
                = sold[s].amount

(***************************************************************************)
(* C29: after calculate_interest_relief or calculate_taxable_profit has    *)
(* returned, the interest_relief_result accessor holds the                 *)
(* InterestReliefResult the computation just used, in every branch; in     *)
(* particular, when interest was paid and the taxable earnings are <= 0,   *)
(* it exposes the fully disallowed interest and the warning.               *)
(***************************************************************************)
C29_AccessorHoldsResult ==
    [][(/\ events' = events + 1
        /\ last'.op \in {"calculate_interest_relief", "calculate_taxable_profit"}
        /\ raised' = "none")
           => tax'.interest_relief = tax'.returned]_vars

(***************************************************************************)
(* C30: the ordered list of MatchedDisposal records get_disposal_summary   *)
(* returns is a deterministic function of the input event sequence,        *)
(* including the relative order of the records flush_all_pending emits for *)
(* different instruments: whatever order the loop over the pending symbols *)
(* takes, the list after flush_all_pending is the same.                    *)
(***************************************************************************)
C30_DeterministicSummary ==
    [][last'.op = "flush_all_pending" =>
          \A order \in Orders(PendingSymbols(pending)) :
              disposals' = FlushEach(Matcher, order).disposals]_vars

====
